---------------------------- MODULE Spec2Model ----------------------------
(***************************************************************************)
(* AsteroidRunner: the game state machine of AsteroidRunner.ino.           *)
(*                                                                         *)
(* One step of the model is one pass of loop(): sample the clock, record   *)
(* a state change, decode the button clicks, run the current state         *)
(* function.  The LCD is a pure sink (glyphs, backlight, the blink flag of *)
(* the splash prompt) and is not part of the state.                        *)
(*                                                                         *)
(* A run starts at boot, in one of a few scenes late in a wave (Scenes),   *)
(* since a wave lasts 250 frames and a game over takes 11 collisions, or   *)
(* at the start of a wave (WaveScenes), one of them 49.7 days after        *)
(* power-up, when the 32-bit clock wraps.                                  *)
(***************************************************************************)
EXTENDS Integers, Sequences, FiniteSets, TLC

VARIABLES
    state,                  \* void (*state)()            line 37
    last_state,             \* void (*last_state)()       line 40
    last_state_change_time, \* unsigned long              line 43
    time,                   \* unsigned long              line 46
    clicked_buttons,        \* uint8_t                    line 49
    last_buttons,           \* static uint8_t             line 171
    asteroids,              \* uint8_t asteroids[40]      line 52
    shield_power,           \* uint8_t                    line 55
    wave,                   \* uint8_t                    line 58
    score,                  \* long                       line 61
    render_col,             \* uint8_t                    line 64
    player_col,             \* uint8_t                    line 67
    player_row,             \* uint8_t                    line 70
    last_render,            \* long                       line 73
    frame,                  \* history: what the last pass of loop() rendered
    frames,                 \* history: frames rendered since begin_wave
    epoch                   \* history: the clock at the first modelled pass

vars == <<state, last_state, last_state_change_time, time, clicked_buttons,
          last_buttons, asteroids, shield_power, wave, score, render_col,
          player_col, player_row, last_render, frame, frames, epoch>>

-----------------------------------------------------------------------------
(* Program constants *)

FieldWidth == 40
LastCol == 39
MaxRow == 3
FullShield == 10
RenderPeriod == 250
WaveDelay == 3000
GameOverDelay == 5000
WaveScore == 500
ShieldBonus == 10
TypeBase == 13
MinType == 3
BothFromWave == 5
FirstRenderCol == 16

\* Button bits of Adafruit_RGBLCDShield.h, used at lines 225, 369, 372.
BUTTON_SELECT == 1
BUTTON_DOWN == 4
BUTTON_UP == 8

Word8 == 256
\* A 32-bit unsigned long is kept as <<high half, low half>>, each a 16-bit
\* number, so that its arithmetic wraps at 2^32 as on the AVR.
Half == 65536

-----------------------------------------------------------------------------
(* Bounds of the model *)

\* Longest run explored from an initial state, in clock milliseconds.
MaxElapsed == 7000
\* The part of a run, in clock milliseconds from its initial state, in
\* which every outcome of random() is explored; later frames take the
\* largest draw of the range only.
FreeDrawWindow == 125

\* Durations of one pass of loop(): delay(10) plus the pass itself, so any
\* value from 10 up; these straddle the 250 ms gate and the two delays.
TickDeltas == {125, 3000}

\* Raw masks readButtons() returns in the game runs.
ButtonMasks == {0, BUTTON_UP, BUTTON_DOWN, BUTTON_SELECT}

-----------------------------------------------------------------------------
(* 8-bit bitwise arithmetic, as the AVR computes it *)

BitOf(x, i) == (x \div (2^i)) % 2

FromBits(b) ==
    b[0] + 2*b[1] + 4*b[2] + 8*b[3] + 16*b[4] + 32*b[5] + 64*b[6] + 128*b[7]

And8(a, b) == FromBits([i \in 0..7 |-> BitOf(a, i) * BitOf(b, i)])
Or8(a, b)  == FromBits([i \in 0..7 |->
                  IF BitOf(a, i) = 1 \/ BitOf(b, i) = 1 THEN 1 ELSE 0])
Xor8(a, b) == FromBits([i \in 0..7 |-> (BitOf(a, i) + BitOf(b, i)) % 2])
Not8(a)    == FromBits([i \in 0..7 |-> 1 - BitOf(a, i)])
Shl8(a, n) == (a * (2^n)) % Word8

-----------------------------------------------------------------------------
(* The pure parts of the handlers *)

\* Fault: every changed bit counts, pressed or released.
ClickedMaskAnyEdge(last, buttons) == Xor8(last, buttons)

\* read_button_clicks, line 174: (last_buttons ^ buttons) & (~buttons).
ClickedMask(last, buttons) == And8(Xor8(last, buttons), Not8(buttons))

\* 32-bit unsigned arithmetic: a number below 2^31 as a 32-bit value, the
\* sum with such a number, the difference, and the comparison with a
\* number below 2^16.
U32(n) == <<n \div Half, n % Half>>

Add32(a, n) ==
    LET lo == a[2] + (n % Half)
        hi == a[1] + (n \div Half) + (lo \div Half)
    IN  <<hi % Half, lo % Half>>

Sub32(a, b) ==
    LET lo == a[2] - b[2] + Half
        hi == a[1] - b[1] + Half - (IF lo < Half THEN 1 ELSE 0)
    IN  <<hi % Half, lo % Half>>

AtLeast32(a, n) == a[1] > 0 \/ a[2] >= n

\* loop, line 140: the clock is a 32-bit millisecond counter.
millis(dt) == Add32(time, dt)

\* Unsigned 32-bit difference of two clock values (lines 259, 274, 285, 392).
\* last_render is a long: the subtraction converts it to unsigned long, so
\* it is kept here as its 32-bit pattern.
Since(t, then) == Sub32(t, then)

\* Fault: the time stamp follows the clock, so no time ever passes.
DelayOverNever(t, then, delay) == AtLeast32(Since(t, t), delay)

\* Fault: > in place of >=.
DelayOverStrict(t, then, delay) == AtLeast32(Since(t, then), delay + 1)

DelayOver(t, then, delay) == AtLeast32(Since(t, then), delay)

RenderGate(t, then) == AtLeast32(Since(t, then), RenderPeriod)

\* Fault: a column index at 39 wraps to 1.
NextColPastZero(c) == IF c < LastCol THEN c + 1 ELSE 1

\* play_game, lines 294 and 328.
NextCol(c) == IF c < LastCol THEN c + 1 ELSE 0

\* play_game, lines 299-300: uint8_t asteroid_type = 13 - wave, at least 3.
AsteroidType(w) ==
    LET t == (TypeBase - w + Word8) % Word8
    IN  IF t < MinType THEN MinType ELSE t

\* Fault: draw 2 sets both bits in every wave.
RowBitsAlwaysBoth(r, i, w) ==
    CASE r = 0 -> Shl8(1, i * 2)
      [] r = 1 -> Shl8(2, i * 2)
      [] r = 2 -> Shl8(3, i * 2)
      [] OTHER -> 0

\* play_game, lines 302-322: the bits one logical row i adds for draw r.
RowBits(r, i, w) ==
    CASE r = 0 -> Shl8(1, i * 2)
      [] r = 1 -> Shl8(2, i * 2)
      [] r = 2 -> IF w > BothFromWave THEN Shl8(3, i * 2) ELSE 0
      [] OTHER -> 0

\* play_game, lines 296-325: the cell generated from the two draws.
NewCell(r0, r1, w) == Or8(Or8(0, RowBits(r0, 0, w)), RowBits(r1, 1, w))

\* Fault: the score is counted once per frame, not once per row.
ScoreAfterFrameOnce(sc) == sc + 1

\* play_game, lines 297 and 324: score++ once per logical row.
\* score is a 32-bit long; the runs explored keep it far below 2^31.
ScoreAfterFrame(sc) == (sc + 1) + 1

\* Fault: the collision test uses the bit the glyph test uses (lines 331,
\* 348), the half-row the ship does not occupy.
CollidesOtherHalf(cell, row) ==
    IF row % 2 = 0
    THEN And8(cell, Shl8(2, (row \div 2) * 2)) # 0
    ELSE And8(cell, Shl8(1, (row \div 2) * 2)) # 0

\* play_game, lines 330-364: the collision test of the ship's half-row.
Collides(cell, row) ==
    IF row % 2 = 0
    THEN And8(cell, Shl8(1, (row \div 2) * 2)) # 0
    ELSE And8(cell, Shl8(2, (row \div 2) * 2)) # 0

\* Fault: a collision costs two units of shield power.
ShieldAfterHitTwice(sp) == IF sp = 0 THEN sp ELSE IF sp = 1 THEN 0 ELSE sp - 2

\* Fault: the uint8_t is decremented without the test for 0.
ShieldAfterHitUnchecked(sp) == (sp - 1 + Word8) % Word8

\* play_game, lines 341-345 and 358-362.
ShieldAfterHit(sp) == IF sp = 0 THEN sp ELSE sp - 1

\* Fault: an exhausted shield does not end the game.
StateAfterHitNever(st, sp) == st

StateAfterHit(st, sp) == IF sp = 0 THEN "game_over" ELSE st

\* play_game, lines 369-374.
RowAfterUp(row, clicked) ==
    IF And8(clicked, BUTTON_UP) # 0
    THEN (IF row > 0 THEN row - 1 ELSE 0)
    ELSE row

\* Fault: the row is not clamped at the bottom.
RowAfterDownUnclamped(row, clicked) ==
    IF And8(clicked, BUTTON_DOWN) # 0 THEN row + 1 ELSE row

RowAfterDown(row, clicked) ==
    IF And8(clicked, BUTTON_DOWN) # 0
    THEN (IF row < MaxRow THEN row + 1 ELSE MaxRow)
    ELSE row

RowAfterClicks(row, clicked) == RowAfterDown(RowAfterUp(row, clicked), clicked)

\* Fault: the end of the wave goes straight to the delay, past end_wave.
StateAfterScoreToDelay(st, sc) ==
    IF sc % WaveScore = 0 THEN "end_wave_delay" ELSE st

\* Fault: the end of the wave does not override game_over.
StateAfterScoreUnlessOver(st, sc) ==
    IF sc % WaveScore = 0 /\ st # "game_over" THEN "end_wave" ELSE st

\* play_game, lines 376-378.
StateAfterScore(st, sc) == IF sc % WaveScore = 0 THEN "end_wave" ELSE st

\* Fault: = in place of +=.
ScoreAfterWaveAssigned(sc, sp) == sp * ShieldBonus

\* Fault: the bonus is not multiplied by 10.
ScoreAfterWaveUnscaled(sc, sp) == sc + sp

\* end_wave, line 266.
ScoreAfterWave(sc, sp) == sc + sp * ShieldBonus

\* end_wave_delay, line 275: wave++ on a uint8_t.
NextWave(w) == (w + 1) % Word8

\* Fault: the playfield is filled with obstacles, not cleared.
FullField == [c \in 0..(FieldWidth - 1) |-> 15]

\* begin_wave, line 246.
EmptyField == [c \in 0..(FieldWidth - 1) |-> 0]

-----------------------------------------------------------------------------
(* The random source *)

\* random(n) returns a value of 0..n-1 (line 302).  The switch tells 0, 1, 2
\* and the rest apart, so the draws taken are 0..3 and the top of the range.
RandomDraws(n, free) ==
    IF free THEN {r \in 0..(n - 1) : r <= 3 \/ r = n - 1} ELSE {n - 1}

-----------------------------------------------------------------------------
(* loop(): lines 139-156 *)

\* read_button_clicks, lines 170-176.
read_button_clicks(buttons) ==
    /\ clicked_buttons' = ClickedMask(last_buttons, buttons)
    /\ last_buttons' = buttons

\* The head of loop(), lines 140-150, for a pass that starts dt ms after
\* the previous one and reads the raw mask buttons.
loop(dt, buttons) ==
    /\ ~AtLeast32(Since(millis(dt), epoch), MaxElapsed + 1)
    /\ time' = millis(dt)
    /\ IF last_state # state
       THEN /\ last_state' = state
            /\ last_state_change_time' = time'
       ELSE UNCHANGED <<last_state, last_state_change_time>>
    /\ read_button_clicks(buttons)
    /\ UNCHANGED epoch

waveVars == <<asteroids, shield_power, render_col, player_col, player_row,
              last_render>>

-----------------------------------------------------------------------------
(* The state functions, each run by one pass of loop() *)

\* lines 200-206
begin_splash_screen(dt, buttons) ==
    /\ state = "begin_splash_screen"
    /\ loop(dt, buttons)
    /\ state' = "animate_splash_screen"
    /\ frame' = "none"
    /\ UNCHANGED <<wave, score, waveVars, frames>>

\* lines 208-228
animate_splash_screen(dt, buttons) ==
    /\ state = "animate_splash_screen"
    /\ loop(dt, buttons)
    /\ state' = IF And8(clicked_buttons', BUTTON_SELECT) # 0
                THEN "start_game" ELSE state
    /\ frame' = "none"
    /\ UNCHANGED <<wave, score, waveVars, frames>>

\* lines 230-236
start_game(dt, buttons) ==
    /\ state = "start_game"
    /\ loop(dt, buttons)
    /\ score' = 0
    /\ wave' = 1
    /\ state' = "begin_wave"
    /\ frame' = "none"
    /\ UNCHANGED <<waveVars, frames>>

\* lines 242-256
begin_wave(dt, buttons) ==
    /\ state = "begin_wave"
    /\ loop(dt, buttons)
    /\ asteroids' = EmptyField
    /\ shield_power' = FullShield
    /\ render_col' = FirstRenderCol
    /\ player_col' = 0
    /\ player_row' = 0
    /\ last_render' = U32(0)
    /\ state' = "begin_wave_delay"
    /\ frame' = "none"
    /\ frames' = 0
    /\ UNCHANGED <<wave, score>>

\* lines 258-263
begin_wave_delay(dt, buttons) ==
    /\ state = "begin_wave_delay"
    /\ loop(dt, buttons)
    /\ state' = IF DelayOver(time', last_state_change_time', WaveDelay)
                THEN "play_game" ELSE state
    /\ frame' = "none"
    /\ UNCHANGED <<wave, score, waveVars, frames>>

\* lines 265-271
end_wave(dt, buttons) ==
    /\ state = "end_wave"
    /\ loop(dt, buttons)
    /\ score' = ScoreAfterWave(score, shield_power)
    /\ state' = "end_wave_delay"
    /\ frame' = "none"
    /\ UNCHANGED <<wave, waveVars, frames>>

\* lines 273-278
end_wave_delay(dt, buttons) ==
    /\ state = "end_wave_delay"
    /\ loop(dt, buttons)
    /\ IF DelayOver(time', last_state_change_time', WaveDelay)
       THEN /\ wave' = NextWave(wave)
            /\ state' = "begin_wave"
       ELSE UNCHANGED <<wave, state>>
    /\ frame' = "none"
    /\ UNCHANGED <<score, waveVars, frames>>

\* The draws of random() explored for a frame rendered at clock value t.
FrameDraws(t) ==
    RandomDraws(AsteroidType(wave),
                ~AtLeast32(Since(t, epoch), FreeDrawWindow + 1))

\* lines 286-366: one rendered frame; r0 and r1 are the draws of random()
\* for the two rows.
render_frame(r0, r1) ==
    LET rc  == NextCol(render_col)
        pc  == NextCol(player_col)
        fld == [asteroids EXCEPT ![rc] = NewCell(r0, r1, wave)]
        hit == Collides(fld[pc], player_row)
        st  == IF hit THEN StateAfterHit(state, shield_power) ELSE state
    IN  /\ render_col' = rc
        /\ asteroids' = fld
        /\ score' = ScoreAfterFrame(score)
        /\ player_col' = pc
        /\ shield_power' = IF hit THEN ShieldAfterHit(shield_power)
                           ELSE shield_power
        /\ last_render' = time'
        /\ frame' = IF hit THEN "hit" ELSE "clear"
        /\ frames' = frames + 1
        /\ state' = StateAfterScore(st, score')

\* lines 284-379
play_game(dt, buttons) ==
    /\ state = "play_game"
    /\ loop(dt, buttons)
    /\ IF RenderGate(time', last_render)
       THEN \E r0 \in FrameDraws(time'), r1 \in FrameDraws(time') :
                render_frame(r0, r1)
       ELSE /\ frame' = "none"
            /\ state' = StateAfterScore(state, score)
            /\ UNCHANGED <<asteroids, shield_power, render_col, player_col,
                           last_render, score, frames>>
    /\ player_row' = RowAfterClicks(player_row, clicked_buttons')
    /\ UNCHANGED wave

\* lines 385-389
game_over(dt, buttons) ==
    /\ state = "game_over"
    /\ loop(dt, buttons)
    /\ state' = "game_over_delay"
    /\ frame' = "none"
    /\ UNCHANGED <<wave, score, waveVars, frames>>

\* lines 391-395
game_over_delay(dt, buttons) ==
    /\ state = "game_over_delay"
    /\ loop(dt, buttons)
    /\ state' = IF DelayOver(time', last_state_change_time', GameOverDelay)
                THEN "begin_splash_screen" ELSE state
    /\ frame' = "none"
    /\ UNCHANGED <<wave, score, waveVars, frames>>

-----------------------------------------------------------------------------
(* Initial states *)

\* The globals as the sketch defines them (lines 37-73), after setup().
InitBoot ==
    /\ state = "begin_splash_screen"
    /\ last_state = "NULL"
    /\ last_state_change_time = U32(0)
    /\ time = U32(0)
    /\ clicked_buttons = 0
    /\ last_buttons = 0
    /\ asteroids = EmptyField
    /\ shield_power = 0
    /\ wave = 0
    /\ score = 0
    /\ render_col = FirstRenderCol
    /\ player_col = 0
    /\ player_row = 0
    /\ last_render = U32(0)
    /\ frame = "none"
    /\ frames = 0
    /\ epoch = U32(0)

\* The playfield f frames into wave w, when the ship has pc as its column:
\* in the waves whose draw range is 0..2 every row holds an obstacle (here
\* the top one, draw 0), in the others the field is empty; ahead is <<>>
\* or the two draws that generated the next cell of the ship.
SceneField(w, pc, ahead) ==
    LET base == IF AsteroidType(w) = MinType
                THEN [c \in 0..(FieldWidth - 1) |-> NewCell(0, 0, w)]
                ELSE EmptyField
    IN  IF ahead # <<>>
        THEN [base EXCEPT ![NextCol(pc)] = NewCell(ahead[1], ahead[2], w)]
        ELSE base

\* A pass boundary in play, f >= 67 frames into wave w of a game whose
\* earlier waves each ended with shield power 0: the last frame was
\* rendered phase ms ago, it flagged no collision and no button is down.
\* Every such state is reachable from InitBoot: 67 frames are enough for
\* any shield power and any contents of the 40 cells.
InitPlay(w, f, sp, row, ahead, phase) ==
    LET rendered == 70000 * w + RenderPeriod * f
        field    == SceneField(w, f % FieldWidth, ahead)
    IN  /\ ~Collides(field[f % FieldWidth], row)
        /\ state = "play_game"
        /\ last_state = "play_game"
        /\ last_state_change_time = U32(rendered - RenderPeriod * (f - 1))
        /\ time = U32(rendered + phase)
        /\ clicked_buttons = 0
        /\ last_buttons = 0
        /\ asteroids = field
        /\ shield_power = sp
        /\ wave = w
        /\ score = WaveScore * (w - 1) + 2 * f
        /\ render_col = (FirstRenderCol + f) % FieldWidth
        /\ player_col = f % FieldWidth
        /\ player_row = row
        /\ last_render = U32(rendered)
        /\ frame = IF phase = 0 THEN "clear" ELSE "none"
        /\ frames = f
        /\ epoch = time

\* The scenes a run may start in: <<wave, frames, shield power, ship row,
\* draws of the cell ahead, ms since the last frame>>.
Scenes ==
    { <<1, 249, 0, 0, <<0, 0>>, 0>>,   \* last frame of wave 1, no shield left
      <<1, 239, 0, 0, <<0, 0>>, 0>>,   \* no shield left, ship column at 39
      <<1, 223, 10, 3, <<>>, 125>>,    \* render column at 39, bottom row
      <<1, 239, 1, 0, <<0, 0>>, 0>>,   \* one shield left, ship column at 39
      <<9, 239, 0, 0, <<2, 2>>, 0>>,   \* wave 9, no shield left, full cell
      <<13, 249, 10, 1, <<>>, 0>>,     \* last frame of wave 13
      <<255, 249, 10, 0, <<0, 0>>, 0>> \* last frame of wave 255
    }

\* A pass boundary waited ms after the first pass of begin_wave_delay,
\* which ran at clock value entered, in wave w of a game whose earlier
\* waves each ended with shield power 0: begin_wave has run (lines 246-253)
\* and, when the 3000 ms are over, play_game has been selected (line 260).
InitWave(w, entered, waited) ==
    /\ state = IF waited < WaveDelay THEN "begin_wave_delay" ELSE "play_game"
    /\ last_state = "begin_wave_delay"
    /\ last_state_change_time = entered
    /\ time = Add32(entered, waited)
    /\ clicked_buttons = 0
    /\ last_buttons = 0
    /\ asteroids = EmptyField
    /\ shield_power = FullShield
    /\ wave = w
    /\ score = WaveScore * (w - 1)
    /\ render_col = FirstRenderCol
    /\ player_col = 0
    /\ player_row = 0
    /\ last_render = U32(0)
    /\ frame = "none"
    /\ frames = 0
    /\ epoch = time

\* The wave starts a run may begin in: <<wave, clock at the first pass of
\* begin_wave_delay, ms waited>>.  The second is a game begun 3000 ms
\* before the clock wraps, 49.7 days after power-up.
WaveScenes ==
    { <<13, U32(900000), 3000>>,
      <<1, <<65535, 62536>>, 2875>> }

Init ==
    \/ InitBoot
    \/ \E sc \in Scenes :
          InitPlay(sc[1], sc[2], sc[3], sc[4], sc[5], sc[6])
    \/ \E sc \in WaveScenes : InitWave(sc[1], sc[2], sc[3])

-----------------------------------------------------------------------------

Next ==
    \E dt \in TickDeltas, buttons \in ButtonMasks :
        \/ begin_splash_screen(dt, buttons)
        \/ animate_splash_screen(dt, buttons)
        \/ start_game(dt, buttons)
        \/ begin_wave(dt, buttons)
        \/ begin_wave_delay(dt, buttons)
        \/ play_game(dt, buttons)
        \/ end_wave(dt, buttons)
        \/ end_wave_delay(dt, buttons)
        \/ game_over(dt, buttons)
        \/ game_over_delay(dt, buttons)

Spec == Init /\ [][Next]_vars

\* loop() is called again and again by the Arduino core, and each pass
\* takes time (delay(10), line 155): passes keep occurring.
\* The runs taken are those of the scenes with no shield power left, in
\* which the next collision ends the game or the wave.
InitLive ==
    \E sc \in {x \in Scenes : x[3] = 0} :
        InitPlay(sc[1], sc[2], sc[3], sc[4], sc[5], sc[6])

SpecLive == InitLive /\ [][Next]_vars /\ WF_vars(Next)

-----------------------------------------------------------------------------
(* The input decoder on its own: read_button_clicks over every raw mask of *)
(* the five buttons.                                                       *)

RawMasks == 0..31

poll_buttons(buttons) ==
    /\ read_button_clicks(buttons)
    /\ UNCHANGED <<state, last_state, last_state_change_time, time, wave,
                   score, waveVars, frame, frames, epoch>>

NextButtons == \E buttons \in RawMasks : poll_buttons(buttons)

SpecButtons == InitBoot /\ [][NextButtons]_vars

-----------------------------------------------------------------------------
(* Properties.  In an action formula a step with state = "play_game" is a  *)
(* pass of loop() that runs play_game.                                     *)

\* The pass renders a frame: it runs play_game and passes the gate of line 285.
Rendered == state = "play_game" /\ RenderGate(time', last_render)

\* The rendered frame takes a collision branch (lines 338, 355): the test is
\* made on the new ship column with the row the ship had before the pass.
Collision == Rendered /\ Collides(asteroids'[player_col'], player_row)

UpOnly(mask) == And8(mask, BUTTON_UP) # 0 /\ And8(mask, BUTTON_DOWN) = 0
DownOnly(mask) == And8(mask, BUTTON_DOWN) # 0 /\ And8(mask, BUTTON_UP) = 0

C1_ShieldStep ==
    /\ state = "begin_wave" => shield_power' = FullShield
    /\ Collision /\ shield_power >= 1 => shield_power' = shield_power - 1
    /\ state # "begin_wave" /\ shield_power = 0 => shield_power' = 0
    /\ shield_power' # shield_power => state = "begin_wave" \/ Collision

\* C1: shield power is always in 0..10; begin_wave sets it to 10, a
\* collision takes 1 from it when it is at least 1, nothing else changes it,
\* and at 0 it stays 0.
C1_Shield ==
    /\ [](shield_power \in 0..FullShield)
    /\ [][C1_ShieldStep]_vars

\* A collision found the shield at 0 and left it there.
C1_Witness == frame = "hit" /\ shield_power = 0 /\ state = "game_over"

C2_Step ==
    /\ state = "play_game" /\ UpOnly(clicked_buttons') /\ player_row = 0
           => player_row' = 0
    /\ state = "play_game" /\ DownOnly(clicked_buttons') /\ player_row = MaxRow
           => player_row' = MaxRow
    /\ Rendered /\ render_col = LastCol => render_col' = 0
    /\ Rendered /\ player_col = LastCol => player_col' = 0

\* C2: the ship row is always in 0..3 and both column indices in 0..39; an
\* up click at row 0 and a down click at row 3 leave the row where it is,
\* and a column index at 39 steps to 0.
C2_Bounds ==
    /\ [](/\ player_row \in 0..MaxRow
          /\ render_col \in 0..LastCol
          /\ player_col \in 0..LastCol)
    /\ [][C2_Step]_vars

\* The render column has wrapped to 0 and a down click was taken at row 3.
C2_Witness ==
    /\ state = "play_game"
    /\ last_state = "play_game"
    /\ render_col = 0
    /\ clicked_buttons = BUTTON_DOWN
    /\ player_row = MaxRow

\* C3 as claimed: a collision at shield power 0 always selects game_over.
C3_Original ==
    [][Collision /\ shield_power = 0 => state' = "game_over"]_vars

\* C3: a collision at shield power 0 selects game_over, unless the score
\* after the frame is a multiple of 500: then the pass selects end_wave.
C3_GameOver ==
    [][Collision /\ shield_power = 0
         => state' = IF score' % WaveScore = 0 THEN "end_wave"
                     ELSE "game_over"]_vars

\* game_over was selected by a frame that collided with no shield left.
C3_Witness ==
    /\ state = "game_over"
    /\ last_state = "play_game"
    /\ frame = "hit"
    /\ score % WaveScore # 0

\* C4: a pass of play_game that ends with the score at a multiple of 500
\* selects end_wave, whatever the shield power and whatever the frame hit.
C4_EndWave ==
    [][state = "play_game" /\ score' % WaveScore = 0
         => state' = "end_wave"]_vars

\* end_wave was selected by a frame that collided with no shield left.
C4_Witness ==
    /\ state = "end_wave"
    /\ last_state = "play_game"
    /\ frame = "hit"
    /\ shield_power = 0
    /\ score % WaveScore = 0

\* C5 as claimed: no pass ever lowers the score.
C5_Original == [][score' >= score]_vars

\* C5: no pass lowers the score except the pass that runs start_game, which
\* sets it to 0.
C5_Score ==
    [][/\ state # "start_game" => score' >= score
       /\ state = "start_game" => score' = 0]_vars

\* A game restarted after an earlier game had rendered frames.
C5_Witness ==
    /\ state = "begin_wave"
    /\ last_state = "start_game"
    /\ score = 0
    /\ last_render # U32(0)

\* C6: a pass of play_game that passes the render gate adds exactly 2 to
\* the score; one that does not leaves the score, the playfield, both
\* column indices and the shield power as they were.
C6_Frame ==
    [][/\ Rendered => score' = score + 2
       /\ state = "play_game" /\ ~RenderGate(time', last_render)
              => UNCHANGED <<score, asteroids, render_col, player_col,
                             shield_power>>]_vars

\* A frame was rendered in which the ship collided.
C6_Witness == state = "play_game" /\ frame = "hit" /\ shield_power = 9

\* C7: the pass that completes end_wave_delay makes the wave number one
\* greater than it was.
C7_WaveStep ==
    [][state = "end_wave_delay" /\ state' = "begin_wave"
         => wave' = wave + 1]_vars

\* C8: the pass that runs end_wave adds 10 times the shield power to the
\* score, and the score then stays as it is until the next frame is
\* rendered.
C8_Bonus ==
    [][/\ state = "end_wave" => score' = score + 10 * shield_power
       /\ state \in {"end_wave_delay", "begin_wave", "begin_wave_delay"}
              => score' = score
       /\ state = "play_game" /\ ~RenderGate(time', last_render)
              => score' = score]_vars

\* end_wave has added the bonus of a full shield.
C8_Witness ==
    /\ state = "end_wave_delay"
    /\ last_state = "end_wave"
    /\ shield_power = FullShield
    /\ score % WaveScore = 100

\* C9: the exclusive upper bound of the draw is max(3, 13 - wave).
C9_DrawBound ==
    AsteroidType(wave) = IF 13 - wave > 3 THEN 13 - wave ELSE 3

\* C10: the clicked mask holds exactly the bits set in the previous raw
\* mask and clear in the current one.
C10_Clicks ==
    [][\A i \in 0..7 :
          BitOf(clicked_buttons', i) = 1
              <=> (BitOf(last_buttons, i) = 1 /\ BitOf(last_buttons', i) = 0)
      ]_vars

\* One button was released while another stayed down.
C10_Witness == clicked_buttons # 0 /\ last_buttons # 0

\* Bit i of a playfield cell, for i in 0..3, is half-row i of the display:
\* line 305 sets bit 2i for a top obstacle of logical row i, line 309 bit
\* 2i + 1 for a bottom one, and the ship at row r is in half-row r.
OtherHalf(row) == IF row % 2 = 0 THEN row + 1 ELSE row - 1

\* C11 as claimed: a rendered frame flags a hit exactly when the cell of
\* the ship's new column has the bit of the other half-row of the ship's
\* display line set.
C11_Original ==
    [][Rendered
         => (frame' = "hit"
               <=> BitOf(asteroids'[player_col'], OtherHalf(player_row)) = 1)
      ]_vars

\* C11: a rendered frame flags a hit exactly when the cell of the ship's
\* new column has the bit of the ship's own half-row set (top half: the
\* top-obstacle bit, bottom half: the bottom-obstacle bit); the bit of the
\* other half-row only selects the glyph.
C11_Hit ==
    [][Rendered
         => (frame' = "hit"
               <=> BitOf(asteroids'[player_col'], player_row) = 1)]_vars

\* The ship, in the top half of line 0, hit a cell that holds top
\* obstacles only.
C11_Witness ==
    /\ frame = "hit"
    /\ clicked_buttons = 0
    /\ player_row = 0
    /\ asteroids[player_col] = 5

\* The rendered frame finds the ship in the top half of its display line
\* with the top-obstacle bit of its cell set.
TopHalfHit ==
    /\ Rendered
    /\ player_row % 2 = 0
    /\ BitOf(asteroids'[player_col'], player_row) = 1

\* C12 as claimed: such a frame at shield power s >= 1 leaves shield power
\* s - 1 and the state machine in play_game.
C12_Original ==
    [][TopHalfHit /\ shield_power >= 1
         => /\ shield_power' = shield_power - 1
            /\ state' = "play_game"]_vars

\* C12: such a frame at shield power s >= 1 leaves shield power s - 1, and
\* the state machine in play_game unless the score after the frame is a
\* multiple of 500: then the pass selects end_wave.
C12_TopHit ==
    [][TopHalfHit /\ shield_power >= 1
         => /\ shield_power' = shield_power - 1
            /\ state' = IF score' % WaveScore = 0 THEN "end_wave"
                        ELSE "play_game"]_vars

\* In wave 1 a ship in a top half was hit at full shield power and play
\* goes on with shield power 9.
C12_Witness ==
    /\ state = "play_game"
    /\ frame = "hit"
    /\ wave = 1
    /\ shield_power = FullShield - 1
    /\ player_row % 2 = 0
    /\ clicked_buttons = 0

C13_Step ==
    /\ state = "begin_splash_screen" => state' = "animate_splash_screen"
    /\ state = "animate_splash_screen"
           => state' = IF BitOf(clicked_buttons', 0) = 1 THEN "start_game"
                       ELSE "animate_splash_screen"
    /\ state = "start_game" => state' = "begin_wave"
    /\ state = "begin_wave" => state' = "begin_wave_delay"
    /\ state = "begin_wave_delay"
           => state' = IF DelayOver(time', last_state_change_time', WaveDelay)
                       THEN "play_game" ELSE "begin_wave_delay"
    /\ state = "play_game"
           => state' = IF score' % WaveScore = 0 THEN "end_wave"
                       ELSE IF Collision /\ shield_power = 0 THEN "game_over"
                       ELSE "play_game"
    /\ state = "end_wave" => state' = "end_wave_delay"
    /\ state = "end_wave_delay"
           => state' = IF DelayOver(time', last_state_change_time', WaveDelay)
                       THEN "begin_wave" ELSE "end_wave_delay"
    /\ state = "game_over" => state' = "game_over_delay"
    /\ state = "game_over_delay"
           => state' = IF DelayOver(time', last_state_change_time',
                                    GameOverDelay)
                       THEN "begin_splash_screen" ELSE "game_over_delay"

\* C13: before the first pass the state is begin_splash_screen, and every
\* pass changes the state along the table only: begin_splash_screen to
\* animate_splash_screen; that to start_game exactly on a select click;
\* start_game to begin_wave; begin_wave to begin_wave_delay; that to
\* play_game; play_game to end_wave or game_over; end_wave to
\* end_wave_delay; that to begin_wave; game_over to game_over_delay; that
\* to begin_splash_screen.  Outside animate_splash_screen the next state
\* is a function of the clock, the score and the collision, not of the
\* clicks.
C13_Table ==
    /\ [](last_state = "NULL" => state = "begin_splash_screen")
    /\ [][C13_Step]_vars

\* The table was walked from play through game over back to the splash.
C13_Witness ==
    /\ state = "begin_splash_screen"
    /\ last_state = "game_over_delay"

\* Milliseconds, modulo 2^32, from the first pass that ran the state this
\* pass runs to this pass.
InState == Sub32(time', last_state_change_time')

C14_Step ==
    /\ last_state # state => last_state_change_time' = time'
    /\ last_state = state
           => last_state_change_time' = last_state_change_time
    /\ state = "begin_wave_delay"
           => (state' # state <=> AtLeast32(InState, WaveDelay))
    /\ state = "end_wave_delay"
           => (state' # state <=> AtLeast32(InState, WaveDelay))
    /\ state = "game_over_delay"
           => (state' # state <=> AtLeast32(InState, GameOverDelay))

\* C14: the state-change time is the clock of the first pass that runs a
\* state, and a delay state is left by the first pass at which its delay
\* has passed since then, never by an earlier one: 3000 ms for
\* begin_wave_delay and end_wave_delay, 5000 ms for game_over_delay.
C14_Delays == [][C14_Step]_vars

\* begin_wave_delay was left exactly 3000 ms after its first pass.
C14_Witness ==
    /\ state = "play_game"
    /\ last_state = "begin_wave_delay"
    /\ Sub32(time, last_state_change_time) = U32(WaveDelay)

\* The run has time left for a pass of 125 ms.
PassLeft == ~AtLeast32(Since(millis(125), epoch), MaxElapsed + 1)

\* game_over_delay has had its first pass early enough in the run for the
\* run to hold the 5000 ms of the delay.
GameOverStamped ==
    /\ state = "game_over_delay"
    /\ last_state = "game_over_delay"
    /\ ~AtLeast32(Since(last_state_change_time, epoch),
                  MaxElapsed - GameOverDelay + 1)

C15_Step ==
    /\ state = "game_over" => state' = "game_over_delay"
    /\ state = "game_over_delay" /\ state' # state
           => state' = "begin_splash_screen"
    /\ state = "begin_splash_screen" => state' = "animate_splash_screen"
    /\ state = "animate_splash_screen" /\ BitOf(clicked_buttons', 0) = 1
           => state' = "start_game"
    /\ state = "start_game"
           => score' = 0 /\ wave' = 1 /\ state' = "begin_wave"

\* C15: while passes keep occurring, game_over is followed by
\* game_over_delay, that by begin_splash_screen and that by
\* animate_splash_screen, in which a select click starts a game with score
\* 0 and wave 1; no state is terminal: a pass is possible in every state
\* the run has time left for.
C15_Restart ==
    /\ [][C15_Step]_vars
    /\ [](PassLeft => ENABLED Next)
    /\ GameOverStamped ~> state = "begin_splash_screen"
    /\ (state = "begin_splash_screen" /\ PassLeft)
          ~> (state = "animate_splash_screen"
                /\ last_state = "begin_splash_screen")

\* The splash screen came back after a game that had scored.
C15_Witness ==
    /\ state = "animate_splash_screen"
    /\ last_state = "begin_splash_screen"
    /\ score > 0

\* No logical row of the cell has its top and its bottom bit both set.
NoBoth(cell) ==
    /\ ~(BitOf(cell, 0) = 1 /\ BitOf(cell, 1) = 1)
    /\ ~(BitOf(cell, 2) = 1 /\ BitOf(cell, 3) = 1)

\* The bits claimed for draw r of logical row i in wave w: the top bit for
\* 0, the bottom bit for 1, both for 2 from wave 6 on, none otherwise.
ClaimedBits(r, i, w) ==
    IF r = 0 THEN 4^i
    ELSE IF r = 1 THEN 2 * 4^i
    ELSE IF r = 2 /\ w >= 6 THEN 3 * 4^i
    ELSE 0

C16_Generated ==
    Rendered
      => \E r0 \in 0..3, r1 \in 0..3 :
            asteroids'[render_col']
                = ClaimedBits(r0, 0, wave) + ClaimedBits(r1, 1, wave)

\* C16 as claimed: in every state with the wave number at most 5 no cell
\* has both bits of a logical row set, and every cell is below 16.
C16_Original ==
    /\ wave <= 5 => \A c \in 0..LastCol : NoBoth(asteroids[c])
    /\ \A c \in 0..LastCol : asteroids[c] < 16

\* C16: in every state with the wave number at most 5, except the one in
\* which begin_wave has been selected and has not yet cleared the
\* playfield, no cell has both bits of a logical row set; a frame
\* generates the cell from the two draws with draw 2 setting no bit up to
\* wave 5 and both bits from wave 6 on; every cell is below 16.
C16_Cells ==
    /\ [](state # "begin_wave" /\ wave <= 5
            => \A c \in 0..LastCol : NoBoth(asteroids[c]))
    /\ [](\A c \in 0..LastCol : asteroids[c] < 16)
    /\ [][C16_Generated]_vars

\* A frame of wave 1 generated a top obstacle in row 0 and a bottom one in
\* row 1.
C16_Witness ==
    /\ wave = 1
    /\ frame # "none"
    /\ asteroids[render_col] = 9

\* The pass ends a wave: play_game selects end_wave.
WaveEnds == state = "play_game" /\ state' = "end_wave"

\* C17: the score is even in every state, and play_game selects end_wave
\* only with the score at a multiple of 500 reached by the frames of the
\* wave, 2 points each: at least 200 and at most 250 of them, so that the
\* multiple is the first one above the score the wave started with.
C17_Waves ==
    /\ [](score % 2 = 0)
    /\ [][WaveEnds
            => /\ score' % WaveScore = 0
               /\ frames' \in 200..250
               /\ (score' - 2 * frames') \div WaveScore
                      = (score' \div WaveScore) - 1]_vars

\* The pass is the first one of play_game in a wave.
FirstPlayPass == state = "play_game" /\ last_state = "begin_wave_delay"

\* C18: the first pass of play_game in a wave passes the render gate, and
\* no wave ends with no frame rendered.
C18_FirstFrame ==
    /\ [][FirstPlayPass => RenderGate(time', last_render)]_vars
    /\ [][WaveEnds => frames' >= 1]_vars

C19_Step ==
    /\ state = "begin_wave" => render_col' = 16 /\ player_col' = 0
    /\ Rendered => /\ render_col' = (render_col + 1) % 40
                   /\ player_col' = (player_col + 1) % 40
                   /\ player_col' # render_col'
    /\ state # "begin_wave" /\ ~Rendered
           => UNCHANGED <<render_col, player_col>>

\* C19: at every pass boundary the render column is the ship column plus
\* 16, modulo 40: begin_wave resets both, a frame advances both by one and
\* nothing else changes them, so the cell the ship reads is never the one
\* the same frame generated.
C19_Columns ==
    /\ [](render_col = (player_col + 16) % 40)
    /\ [][C19_Step]_vars

\* Frame 224 of a wave took the render column from 39 to 0 and the ship
\* column from 23 to 24.
C19_Witness ==
    /\ frame # "none"
    /\ frames = 224
    /\ render_col = 0
    /\ player_col = 24

\* The states in which frames counts the frames of the wave being played.
InWave == state \in {"begin_wave_delay", "play_game"}

C20_Step ==
    /\ Rendered /\ frames < 16
           => ~Collision /\ frame' # "hit" /\ shield_power' = FullShield
    /\ state = "play_game" /\ state' = "game_over"
           => Collision /\ shield_power = 0 /\ frames' >= 27

\* C20: none of the first 16 frames of a wave flags a collision, whatever
\* the draws and the clicks, so shield power is 10 after frame 16; from
\* then on it has lost at most one unit per frame, and game_over is
\* selected only by a frame that collides at shield power 0, the 27th of
\* the wave at the earliest.
C20_Grace ==
    /\ [](InWave /\ frames <= 16 => shield_power = FullShield)
    /\ [](InWave /\ frames > 16
            => shield_power + (frames - 16) >= FullShield)
    /\ [][C20_Step]_vars

\* Frames 17 to 26 of a wave each took a unit of shield power and frame 27
\* ended the game.
C20_Witness ==
    /\ state = "game_over"
    /\ frame = "hit"
    /\ frames = 27
    /\ shield_power = 0

=============================================================================
